---- MODULE Spec2Model ----
(***************************************************************************)
(* Server-state synchronisation of the dashboard front end: the useProbes  *)
(* hook (queries ['probes'] and ['probe-results', jobId, timeframe], the   *)
(* createProbe and executeProbe mutations and their invalidations) and the *)
(* VisibilityResearch page (runResearchMutation, handleRunResearch).       *)
(* The hooks are written against React Query 5 (useQuery, useMutation,     *)
(* invalidateQueries); each call is modelled by what that call does to the *)
(* query cache, the mutation observer and the network.                     *)
(***************************************************************************)
EXTENDS Integers, Sequences, FiniteSets, TLC

\* ------------------------------------------------------------------ bounds
\* Requests (GET and POST together) issued in one behaviour.
MaxRequests == 6
\* Requests issued in one behaviour of the probe-results specification.
MaxResultsRequests == 3
\* Requests issued in one behaviour of the specification of useProbes as a whole.
MaxFrameRequests == 3
\* Attempts of a readiness loop of start.sh that are counted.
MaxPolls == 2
\* useQuery observers mounted at one time in the specification of useProbes as a whole.
MaxFrameObservers == 2
\* Requests issued by the component in the specification with a transport that answers.
MaxLiveRequests == 3
\* useQuery observers mounted at one time, over all keys.
MaxObservers == 3

\* ------------------------------------------------------------- query keys
JobIds == {"", "job1"}
\* The value of an omitted timeframe argument.
Undefined == "undefined"

listProbesKey == <<"probes">>

\* A key built from the arguments as passed, the default not filled in.
getProbeResultsKeyNoDefault(jobId, timeframe) == <<"probe-results", jobId, timeframe>>

\* getProbeResults(jobId, timeframe = '30d'): the queryKey it builds.
getProbeResultsKey(jobId, timeframe) ==
    <<"probe-results", jobId, IF timeframe = Undefined THEN "30d" ELSE timeframe>>

\* The calls of getProbeResults tried: <<jobId, timeframe>>.
ResultsArgs == {<<"job1", "30d">>, <<"job1", "7d">>, <<"job1", Undefined>>,
                <<"", "30d">>}

Keys == {listProbesKey} \cup {getProbeResultsKey(a[1], a[2]) : a \in ResultsArgs}

\* The keys of getProbeResults.
ResultsKeys == Keys \ {listProbesKey}

RECURSIVE SumOf(_, _)
SumOf(R, S) == IF S = {} THEN 0
               ELSE LET k == CHOOSE x \in S : TRUE
                    IN  R[k] + SumOf(R, S \ {k})

\* The arguments tried that give the key k.
ArgsOf == [k \in Keys |-> {a \in ResultsArgs : getProbeResultsKey(a[1], a[2]) = k}]

\* The getProbeResults calls one component can hold, by arguments: all the
\* observers there can be but the one of its own ['probes'] query.
ComponentResults == {R \in [ResultsArgs -> 0..MaxObservers] :
                        SumOf(R, ResultsArgs) < MaxObservers}

\* A fixed enumeration of the keys, used to number the requests of one batch.
KeySeq == <<listProbesKey,
            getProbeResultsKey("job1", "30d"), getProbeResultsKey("job1", "7d"),
            getProbeResultsKey("", "30d")>>

KeyIndex(k) == CHOOSE i \in 1..Len(KeySeq) : KeySeq[i] = k

\* A query that is enabled whatever the jobId.
enabledAlways(k) == TRUE

\* enabled: !!jobId for getProbeResults; listProbes passes no enabled option.
enabled(k) == IF k = listProbesKey THEN TRUE ELSE k[2] # ""

\* invalidateQueries({queryKey}) matches every key the filter is a prefix of.
partialMatchKey(k, prefix) ==
    /\ Len(prefix) <= Len(k)
    /\ \A i \in 1..Len(prefix) : k[i] = prefix[i]

\* ------------------------------------------------------ mutation units
Units == {"createProbe", "executeProbe", "runResearch"}

\* onSuccess of createProbe / executeProbe: the prefix handed to
\* queryClient.invalidateQueries. runResearchMutation invalidates nothing.
\* A prefix that matches every key.
invalidatesEverything == <<>>
createProbeInvalidates == <<"probes">>
executeProbeInvalidates == <<"probe-results">>

\* ------------------------------------------------ VisibilityResearch input
\* The category input, a string of characters.
Categories == {<<>>, <<" ">>, <<"a">>, <<" ", "a">>}

RECURSIVE TrimStart(_)
TrimStart(s) == IF s # <<>> /\ Head(s) = " " THEN TrimStart(Tail(s)) ELSE s

RECURSIVE TrimEnd(_)
TrimEnd(s) == IF s # <<>> /\ s[Len(s)] = " "
              THEN TrimEnd(SubSeq(s, 1, Len(s) - 1)) ELSE s

\* A trim that removes nothing.
trimNothing(s) == s

\* category.trim()
trim(s) == TrimEnd(TrimStart(s))

\* ------------------------------------------------------------------ state
VARIABLES
    cache,       \* query cache: key -> query state
    observers,   \* key -> number of mounted useQuery observers
    calls,       \* <<jobId, timeframe>> -> mounted getProbeResults calls made
                 \* with these arguments
    inflight,    \* GET requests on the network: [id, key]
    posts,       \* POST requests on the network: [id, unit, input]
    mutation,    \* unit -> what its useMutation result shows
    category,    \* VisibilityResearch: the category input
    report,      \* VisibilityResearch: id of the response shown, 0 = null
    nextId,      \* id of the next request issued
    lastSettled, \* history: the POST that settled last, and how
    script       \* the start script being run, if any

vars == <<cache, observers, calls, inflight, posts, mutation, category, report, nextId,
          lastSettled, script>>

\* A key with no query in the cache.
NoQuery == [exists |-> FALSE, status |-> "pending", fetchStatus |-> "idle",
            data |-> 0, error |-> FALSE, isInvalidated |-> FALSE,
            fetchFailureCount |-> 0, token |-> 0]

IdleMutation == [status |-> "idle", current |-> 0]

\* Exit statuses a docker-compose command ends with.
Statuses == {0, 1, 2}

\* What a start script finds on the machine: docker and docker-compose on
\* the path, the docker daemon running, .env and .env.example present, a
\* standard input that can be read, and the statuses that docker-compose
\* build and docker-compose up -d will end with.
Worlds == [docker : BOOLEAN, daemon : BOOLEAN, compose : BOOLEAN, env : BOOLEAN,
           example : BOOLEAN, stdin : BOOLEAN, build : Statuses, up : Statuses]

\* Statuses docker-compose logs -f ends with: its own, or 130 on Ctrl+C.
LogStatuses == Statuses \cup {130}

\* The services start.sh waits for, in the order of its loops.
Services == <<"postgres", "redis", "backend", "frontend">>

\* No exit status: the script has not exited.
Running == -1

\* No exit status of the script's own: the user ended the batch job.
Terminated == -2

\* What the user does at a pause of start.bat: a key, or Ctrl+C and then the
\* answer to "Terminate batch job (Y/N)?".
PauseKeys == {"key", "Ctrl+C N", "Ctrl+C Y"}

\* No start script has been launched.
NotStarted == [name |-> "none", pc |-> "none",
               world |-> [docker |-> FALSE, daemon |-> FALSE, compose |-> FALSE,
                          env |-> FALSE, example |-> FALSE, stdin |-> FALSE,
                          build |-> 0, up |-> 0],
               env |-> FALSE, ran |-> <<>>, ready |-> {}, polls |-> 0,
               exit |-> Running]

Init ==
    /\ cache = [k \in Keys |-> NoQuery]
    /\ observers = [k \in Keys |-> 0]
    /\ calls = [a \in ResultsArgs |-> 0]
    /\ inflight = {}
    /\ posts = {}
    /\ mutation = [u \in Units |-> IdleMutation]
    /\ category = <<>>
    /\ report = 0
    /\ nextId = 1
    /\ lastSettled = [id |-> 0, ok |-> FALSE]
    /\ script = NotStarted

\* ------------------------------------------------- query client defaults
\* Options the hooks leave to the QueryClient they are given.
\* One automatic retry.
retryOnce == 0 + 1
\* Automatic retries of a failed fetch.
retry == 0
\* Data that is stale as soon as it has arrived.
staleByTimeAlways == TRUE
\* Whether successful data counts as stale again merely because time passed.
staleByTime == FALSE

\* ------------------------------------------------------- query semantics
isStale(q) == q.isInvalidated \/ q.data = 0 \/ staleByTime

isActive(k) == observers[k] > 0 /\ enabled(k)

\* A fetch that never joins a running one.
willIssueAlways(q, cancelRefetch) == TRUE

\* Whether query.fetch sends a request: always from idle; during a fetch only
\* when the caller asks to cancel the running one and the query has data.
\* Otherwise the caller joins the running fetch.
willIssue(q, cancelRefetch) ==
    \/ q.fetchStatus = "idle"
    \/ q.data # 0 /\ cancelRefetch

\* Query state after a fetch with request id starts.
fetchStarted(q, id) ==
    [q EXCEPT !.fetchStatus = "fetching", !.token = id, !.fetchFailureCount = 0,
              !.status = IF q.data = 0 THEN "pending" ELSE q.status,
              !.error = IF q.data = 0 THEN FALSE ELSE q.error]

\* Query state after its current fetch resolved with the response to id.
fetchSucceeded(q, id) ==
    [q EXCEPT !.status = "success", !.fetchStatus = "idle", !.data = id,
              !.error = FALSE, !.isInvalidated = FALSE,
              !.fetchFailureCount = 0, !.token = 0]

\* A failure that wipes the data.
fetchFailedWipesData(q) ==
    [q EXCEPT !.status = "error", !.fetchStatus = "idle", !.error = TRUE,
              !.data = 0,
              !.fetchFailureCount = q.fetchFailureCount + 1, !.token = 0]

\* Query state after its current fetch failed for good: data is kept.
fetchFailed(q) ==
    [q EXCEPT !.status = "error", !.fetchStatus = "idle", !.error = TRUE,
              !.fetchFailureCount = q.fetchFailureCount + 1, !.token = 0]

\* The request r is the one the query of its key is waiting for.
isCurrent(r) ==
    /\ cache[r.key].exists
    /\ cache[r.key].fetchStatus = "fetching"
    /\ cache[r.key].token = r.id

\* Position of k among the keys of S, in KeySeq order.
Rank(k, S) == Cardinality({j \in S : KeyIndex(j) < KeyIndex(k)})

\* An invalidation that builds an entry for every key it matches.
invalidateQueriesCreates(prefix) ==
    /\ cache' = [k \in Keys |->
          IF partialMatchKey(k, prefix)
          THEN [cache[k] EXCEPT !.exists = TRUE, !.isInvalidated = TRUE]
          ELSE cache[k]]
    /\ UNCHANGED <<inflight, nextId>>

\* An invalidation that marks only the queries it refetches.
invalidateQueriesActiveOnly(prefix) ==
    LET matching == {k \in Keys : cache[k].exists /\ partialMatchKey(k, prefix)}
        refetched == {k \in matching : isActive(k)}
        issuing == {k \in refetched : willIssue(cache[k], TRUE)}
        idOf(k) == nextId + Rank(k, issuing)
    IN  /\ cache' = [k \in Keys |->
              IF k \in issuing
              THEN fetchStarted([cache[k] EXCEPT !.isInvalidated = TRUE], idOf(k))
              ELSE IF k \in refetched
              THEN [cache[k] EXCEPT !.isInvalidated = TRUE]
              ELSE cache[k]]
        /\ inflight' = inflight \cup {[id |-> idOf(k), key |-> k] : k \in issuing}
        /\ nextId' = nextId + Cardinality(issuing)

\* queryClient.invalidateQueries({ queryKey: prefix }): every matching query
\* is marked invalidated; those with an enabled observer are refetched at
\* once, cancelling (not aborting) a running fetch of a query that has data.
invalidateQueries(prefix) ==
    LET matching == {k \in Keys : cache[k].exists /\ partialMatchKey(k, prefix)}
        refetched == {k \in matching : isActive(k)}
        issuing == {k \in refetched : willIssue(cache[k], TRUE)}
        idOf(k) == nextId + Rank(k, issuing)
    IN  /\ cache' = [k \in Keys |->
              IF k \in issuing
              THEN fetchStarted([cache[k] EXCEPT !.isInvalidated = TRUE], idOf(k))
              ELSE IF k \in matching
              THEN [cache[k] EXCEPT !.isInvalidated = TRUE]
              ELSE cache[k]]
        /\ inflight' = inflight \cup {[id |-> idOf(k), key |-> k] : k \in issuing}
        /\ nextId' = nextId + Cardinality(issuing)

\* --------------------------------------------------------- query actions
RECURSIVE SumOver(_)
SumOver(S) == IF S = {} THEN 0
              ELSE LET k == CHOOSE x \in S : TRUE
                   IN  observers[k] + SumOver(S \ {k})

\* Number of mounted observers.
Mounted == SumOver(Keys)

\* A mount that fetches without looking for a running fetch.
useQueryNoDedup(k) ==
    LET q0 == IF cache[k].exists THEN cache[k] ELSE [NoQuery EXCEPT !.exists = TRUE]
        issue == enabled(k) /\ (q0.data = 0 \/ isStale(q0))
    IN  /\ Mounted < MaxObservers
        /\ issue => nextId <= MaxRequests
        /\ observers' = [observers EXCEPT ![k] = @ + 1]
        /\ cache' = [cache EXCEPT ![k] = IF issue THEN fetchStarted(q0, nextId) ELSE q0]
        /\ inflight' = IF issue THEN inflight \cup {[id |-> nextId, key |-> k]}
                       ELSE inflight
        /\ nextId' = IF issue THEN nextId + 1 ELSE nextId
        /\ UNCHANGED <<posts, mutation, category, report, lastSettled, script>>

\* A component mounts useQuery with key k: the query is built if absent, the
\* observer is added, and a fetch starts when the query is enabled and has
\* no data or stale data; a fetch already running is joined.
useQuery(k) ==
    LET q0 == IF cache[k].exists THEN cache[k] ELSE [NoQuery EXCEPT !.exists = TRUE]
        fetchOnMount == enabled(k) /\ (q0.data = 0 \/ isStale(q0))
        issue == fetchOnMount /\ willIssue(q0, FALSE)
    IN  /\ Mounted < MaxObservers
        /\ issue => nextId <= MaxRequests
        /\ observers' = [observers EXCEPT ![k] = @ + 1]
        /\ cache' = [cache EXCEPT ![k] = IF issue THEN fetchStarted(q0, nextId) ELSE q0]
        /\ inflight' = IF issue THEN inflight \cup {[id |-> nextId, key |-> k]}
                       ELSE inflight
        /\ nextId' = IF issue THEN nextId + 1 ELSE nextId
        /\ UNCHANGED <<posts, mutation, category, report, lastSettled, script>>

\* useProbes() is mounted: listProbes subscribes to ['probes'].
listProbes == useQuery(listProbesKey) /\ UNCHANGED calls

\* getProbeResults(jobId, timeframe) is called by a mounted component: one
\* that has called useProbes() and so observes ['probes'].
getProbeResults(jobId, timeframe) ==
    /\ observers[listProbesKey] > 0
    /\ useQuery(getProbeResultsKey(jobId, timeframe))
    /\ calls' = [calls EXCEPT ![<<jobId, timeframe>>] = @ + 1]

\* A mounted component that called getProbeResults(a) calls it with other
\* arguments b on its next render. When b gives the key of a, the observer
\* stays on its query and nothing is fetched. Otherwise the observer leaves
\* the query of a and subscribes to the query of b, fetching as a mount does;
\* with a[1] empty and b[1] not, enabled goes from false to true.
getProbeResultsAgain(a, b) ==
    LET ka == getProbeResultsKey(a[1], a[2])
        kb == getProbeResultsKey(b[1], b[2])
        q0 == IF cache[kb].exists THEN cache[kb] ELSE [NoQuery EXCEPT !.exists = TRUE]
        fetchOptionally == enabled(kb) /\ isStale(q0)
        issue == fetchOptionally /\ willIssue(q0, FALSE)
    IN  /\ a # b
        /\ calls[a] > 0
        /\ calls' = [calls EXCEPT ![a] = @ - 1, ![b] = @ + 1]
        /\ IF ka = kb
           THEN UNCHANGED <<cache, observers, inflight, nextId>>
           ELSE /\ issue => nextId <= MaxRequests
                /\ observers' = [observers EXCEPT ![ka] = @ - 1, ![kb] = @ + 1]
                /\ cache' = [cache EXCEPT ![kb] = IF issue THEN fetchStarted(q0, nextId)
                                                 ELSE q0]
                /\ inflight' = IF issue THEN inflight \cup {[id |-> nextId, key |-> kb]}
                               ELSE inflight
                /\ nextId' = IF issue THEN nextId + 1 ELSE nextId
        /\ UNCHANGED <<posts, mutation, category, report, lastSettled, script>>

\* An unmount that cancels the running fetch when the last observer leaves.
UnmountCancels(k) ==
    /\ observers[k] > 0
    /\ observers' = [observers EXCEPT ![k] = @ - 1]
    /\ IF observers[k] = 1 /\ cache[k].fetchStatus = "fetching"
       THEN /\ cache' = [cache EXCEPT ![k].fetchStatus = "idle", ![k].token = 0]
            /\ inflight' = {r \in inflight : r.key # k}
       ELSE UNCHANGED <<cache, inflight>>
    /\ UNCHANGED <<calls, posts, mutation, category, report, nextId, lastSettled, script>>

\* A component observing k unmounts. A running fetch is left to complete.
Unmount(k) ==
    /\ observers[k] > 0
    /\ observers' = [observers EXCEPT ![k] = @ - 1]
    /\ UNCHANGED <<cache, calls, inflight, posts, mutation, category, report, nextId, lastSettled, script>>

\* A component that called useProbes() unmounts: its observer of ['probes']
\* leaves, and with it the observers of its getProbeResults calls, R[a] of
\* them made with the arguments a, each from the query it subscribed to. The
\* observers that stay belong to components still mounted, each of which
\* observes ['probes'].
unmountUseProbes(R) ==
    /\ observers[listProbesKey] > 0
    /\ \A a \in ResultsArgs : R[a] <= calls[a]
    /\ observers[listProbesKey] = 1 => R = calls
    /\ observers' = [k \in Keys |->
          IF k = listProbesKey THEN observers[k] - 1
          ELSE observers[k] - SumOf(R, ArgsOf[k])]
    /\ calls' = [a \in ResultsArgs |-> calls[a] - R[a]]
    /\ UNCHANGED <<cache, inflight, posts, mutation, category, report, nextId, lastSettled, script>>

\* An unobserved query at rest is dropped from the cache.
GarbageCollect(k) ==
    /\ cache[k].exists
    /\ observers[k] = 0
    /\ cache[k].fetchStatus = "idle"
    /\ cache' = [cache EXCEPT ![k] = NoQuery]
    /\ UNCHANGED <<observers, calls, inflight, posts, mutation, category, report, nextId, lastSettled, script>>

\* A response applied without looking at the fetch the query waits for.
FetchSuccessUnguarded(r) ==
    /\ r \in inflight
    /\ inflight' = inflight \ {r}
    /\ cache' = IF cache[r.key].exists
                THEN [cache EXCEPT ![r.key] = fetchSucceeded(@, r.id)]
                ELSE cache
    /\ UNCHANGED <<observers, calls, posts, mutation, category, report, nextId, lastSettled, script>>

\* The GET r returns 2xx: queryFn resolves with response.data. The result is
\* applied only if r is still the fetch its query waits for.
FetchSuccess(r) ==
    /\ r \in inflight
    /\ inflight' = inflight \ {r}
    /\ cache' = IF isCurrent(r)
                THEN [cache EXCEPT ![r.key] = fetchSucceeded(@, r.id)]
                ELSE cache
    /\ UNCHANGED <<observers, calls, posts, mutation, category, report, nextId, lastSettled, script>>

\* A failure applied without looking at the fetch the query waits for.
FetchErrorUnguarded(r) ==
    /\ r \in inflight
    /\ inflight' = inflight \ {r}
    /\ cache' = IF cache[r.key].exists
                THEN [cache EXCEPT ![r.key] = fetchFailed(@)]
                ELSE cache
    /\ UNCHANGED <<observers, calls, posts, mutation, category, report, nextId, lastSettled, script>>

\* The GET r fails (network failure or non-2xx): queryFn rejects.
FetchError(r) ==
    /\ r \in inflight
    /\ IF isCurrent(r) /\ cache[r.key].fetchFailureCount < retry
          /\ observers[r.key] > 0 /\ nextId <= MaxRequests
       THEN /\ cache' = [cache EXCEPT ![r.key].token = nextId,
                                      ![r.key].fetchFailureCount = @ + 1]
            /\ inflight' = (inflight \ {r}) \cup {[id |-> nextId, key |-> r.key]}
            /\ nextId' = nextId + 1
       ELSE /\ cache' = IF isCurrent(r)
                        THEN [cache EXCEPT ![r.key] = fetchFailed(@)]
                        ELSE cache
            /\ inflight' = inflight \ {r}
            /\ nextId' = nextId
    /\ UNCHANGED <<observers, calls, posts, mutation, category, report, lastSettled, script>>

\* ------------------------------------------------------ mutation actions
\* mutation.mutate(input) of a useMutation unit: a new mutation is built and
\* executed at once, whatever the state of the previous one; the unit's
\* result follows the newest mutation.
mutate(u, input) ==
    /\ nextId <= MaxRequests
    /\ posts' = posts \cup {[id |-> nextId, unit |-> u, input |-> input]}
    /\ mutation' = [mutation EXCEPT ![u] = [status |-> "pending", current |-> nextId]]
    /\ nextId' = nextId + 1

\* A createProbe that marks the probe list invalidated when it is called.
createProbeInvalidatesEarly ==
    /\ mutate("createProbe", "data")
    /\ cache' = [k \in Keys |->
          IF cache[k].exists /\ partialMatchKey(k, createProbeInvalidates)
          THEN [cache[k] EXCEPT !.isInvalidated = TRUE]
          ELSE cache[k]]
    /\ UNCHANGED <<observers, calls, inflight, category, report, lastSettled, script>>

\* createProbe.mutate(data): POST /probes/create.
createProbe ==
    /\ mutate("createProbe", "data")
    /\ UNCHANGED <<cache, observers, calls, inflight, category, report, lastSettled, script>>

\* executeProbe.mutate(jobId): POST /probes/{jobId}/execute.
executeProbe(jobId) ==
    /\ mutate("executeProbe", jobId)
    /\ UNCHANGED <<cache, observers, calls, inflight, category, report, lastSettled, script>>

\* A unit that falls back to idle when its mutation fails.
settledResetsToIdle(p, s) ==
    IF mutation[p.unit].current = p.id
    THEN [mutation EXCEPT ![p.unit].status = IF s = "error" THEN "idle" ELSE s]
    ELSE mutation

\* What the unit shows once the mutation p has settled with status s: only
\* the mutation the unit currently follows changes it.
settled(p, s) ==
    IF mutation[p.unit].current = p.id
    THEN [mutation EXCEPT ![p.unit].status = s]
    ELSE mutation

\* The POST p returns 2xx: the unit's onSuccess runs, then the mutation is
\* marked successful.
PostSuccess(p) ==
    /\ p \in posts
    /\ posts' = posts \ {p}
    /\ CASE p.unit = "createProbe" ->
              /\ invalidateQueries(createProbeInvalidates)
              /\ report' = report
         [] p.unit = "executeProbe" ->
              /\ invalidateQueries(executeProbeInvalidates)
              /\ report' = report
         [] p.unit = "runResearch" ->
              /\ report' = p.id
              /\ UNCHANGED <<cache, inflight, nextId>>
    /\ mutation' = settled(p, "success")
    /\ lastSettled' = [id |-> p.id, ok |-> TRUE]
    /\ UNCHANGED <<observers, calls, category, script>>

\* A failure handled as onSettled would: the unit's invalidation runs.
PostErrorInvalidates(p) ==
    /\ p \in posts
    /\ posts' = posts \ {p}
    /\ CASE p.unit = "createProbe" -> invalidateQueries(createProbeInvalidates)
         [] p.unit = "executeProbe" -> invalidateQueries(executeProbeInvalidates)
         [] p.unit = "runResearch" -> UNCHANGED <<cache, inflight, nextId>>
    /\ mutation' = settled(p, "error")
    /\ lastSettled' = [id |-> p.id, ok |-> FALSE]
    /\ UNCHANGED <<observers, calls, category, report, script>>

\* The POST p fails: no unit defines onError; the mutation is marked failed.
PostError(p) ==
    /\ p \in posts
    /\ posts' = posts \ {p}
    /\ mutation' = settled(p, "error")
    /\ lastSettled' = [id |-> p.id, ok |-> FALSE]
    /\ UNCHANGED <<cache, observers, calls, inflight, category, report, nextId, script>>

\* --------------------------------------------- VisibilityResearch actions
\* An edit of the category that clears the report shown.
setCategoryClearsReport(c) ==
    /\ category' = c
    /\ report' = 0
    /\ UNCHANGED <<cache, observers, calls, inflight, posts, mutation, nextId, lastSettled, script>>

\* onChange of the category input.
setCategory(c) ==
    /\ category' = c
    /\ UNCHANGED <<cache, observers, calls, inflight, posts, mutation, report, nextId, lastSettled, script>>

isPending(u) == mutation[u].status = "pending"

\* handleRunResearch: mutate(category) unless the trimmed category is empty.
handleRunResearch ==
    IF trim(category) # <<>>
    THEN /\ mutate("runResearch", category)
         /\ UNCHANGED <<cache, observers, calls, inflight, category, report, lastSettled, script>>
    ELSE UNCHANGED vars

\* Enter is pressed in the category input.
onKeyPress == handleRunResearch

\* The Run Analysis button is clicked; it is disabled while the category is
\* blank or the mutation is pending.
onClick ==
    /\ ~(trim(category) = <<>> \/ isPending("runResearch"))
    /\ handleRunResearch

\* ---------------------------------------------------------- start scripts
\* The variables of the front end, which a start script leaves alone.
appVars == <<cache, observers, calls, inflight, posts, mutation, category, report, nextId,
             lastSettled>>

\* start.sh or start.bat is launched on a machine w.
start(n, w) ==
    /\ script.name = "none"
    /\ script' = [NotStarted EXCEPT !.name = n, !.pc = "checkDocker", !.world = w,
                                    !.env = w.env]
    /\ UNCHANGED appVars

\* The script is at the step pc of the script n.
At(n, pc) == script.name = n /\ script.pc = pc

\* The script after it has run the command c and moves on to the step pc.
Ran(c, pc) == [script EXCEPT !.ran = Append(@, c), !.pc = pc]
\* The script after exit with the status code.
Exit(sc, code) == [sc EXCEPT !.pc = "exited", !.exit = code]

\* start.sh: command -v docker, or exit 1.
shCheckDocker ==
    /\ At("sh", "checkDocker")
    /\ script' = IF script.world.docker THEN [script EXCEPT !.pc = "checkCompose"]
                 ELSE Exit(script, 1)
    /\ UNCHANGED appVars

\* start.sh: command -v docker-compose, or exit 1.
shCheckCompose ==
    /\ At("sh", "checkCompose")
    /\ script' = IF script.world.compose THEN [script EXCEPT !.pc = "checkEnv"]
                 ELSE Exit(script, 1)
    /\ UNCHANGED appVars

\* start.sh: if .env is absent, cp .env.example .env; set -e ends the script
\* with status 1 when cp fails, .env.example being absent.
shCheckEnv ==
    /\ At("sh", "checkEnv")
    /\ script' = IF script.env THEN [script EXCEPT !.pc = "down"]
                 ELSE IF script.world.example
                 THEN [Ran("cp", "read") EXCEPT !.env = TRUE]
                 ELSE Exit(Ran("cp", "read"), 1)
    /\ UNCHANGED appVars

\* start.sh: read -p "Press Enter to continue ... or Ctrl+C to exit": at end
\* of input read fails and set -e ends the script with status 1; Ctrl+C ends
\* it with status 130; Enter lets it go on.
shRead(key) ==
    /\ At("sh", "read")
    /\ script' = IF ~script.world.stdin THEN Exit(script, 1)
                 ELSE IF key = "Enter" THEN [script EXCEPT !.pc = "down"]
                 ELSE Exit(script, 130)
    /\ UNCHANGED appVars

\* start.sh step 1: docker-compose down || true.
shDown ==
    /\ At("sh", "down")
    /\ script' = Ran("down", "build")
    /\ UNCHANGED appVars

\* start.sh step 2: docker-compose build; set -e ends the script with the
\* status of a failed command.
shBuild ==
    /\ At("sh", "build")
    /\ script' = IF script.world.build = 0 THEN Ran("build", "up")
                 ELSE Exit(Ran("build", "up"), script.world.build)
    /\ UNCHANGED appVars

\* start.sh step 3: docker-compose up -d, under set -e.
shUp ==
    /\ At("sh", "up")
    /\ script' = IF script.world.up = 0 THEN Ran("up", "wait1")
                 ELSE Exit(Ran("up", "wait1"), script.world.up)
    /\ UNCHANGED appVars

\* A service that docker-compose up has started becomes ready.
serviceReady(i) ==
    /\ script.name = "sh"
    /\ "up" \in {script.ran[j] : j \in 1..Len(script.ran)}
    /\ script.exit = Running
    /\ Services[i] \notin script.ready
    /\ script' = [script EXCEPT !.ready = @ \cup {Services[i]}]
    /\ UNCHANGED appVars

\* A script that goes to the banner after any of its loops.
AfterWaitSkips(i) == "banner"

\* The step after the loop of the i-th service.
AfterWait(i) == IF i = Len(Services) THEN "banner"
                ELSE IF i = 1 THEN "wait2" ELSE IF i = 2 THEN "wait3" ELSE "wait4"
WaitStep(i) == IF i = 1 THEN "wait1" ELSE IF i = 2 THEN "wait2"
               ELSE IF i = 3 THEN "wait3" ELSE "wait4"

\* A readiness loop that gives up after MaxPolls attempts.
shWaitBounded(i) ==
    /\ At("sh", WaitStep(i))
    /\ script' = IF Services[i] \in script.ready
                 THEN [Ran(Services[i], AfterWait(i)) EXCEPT !.polls = 0]
                 ELSE IF script.polls >= MaxPolls THEN Exit(script, 1)
                 ELSE [script EXCEPT !.polls = @ + 1]
    /\ UNCHANGED appVars

\* start.sh step 4: one pass of the loop "until <check of service i>; do
\* sleep 2; done". The attempts are counted up to MaxPolls and not beyond;
\* the loop itself has no bound.
shWait(i) ==
    /\ At("sh", WaitStep(i))
    /\ script' = IF Services[i] \in script.ready
                 THEN [Ran(Services[i], AfterWait(i)) EXCEPT !.polls = 0]
                 ELSE [script EXCEPT !.polls = IF @ < MaxPolls THEN @ + 1 ELSE @]
    /\ UNCHANGED appVars

\* start.sh: the "is now running" banner; docker-compose logs -f follows.
shBanner ==
    /\ At("sh", "banner")
    /\ script' = Ran("banner", "logs")
    /\ UNCHANGED appVars

\* start.sh: docker-compose logs -f returns with status st. A status other
\* than 0 ends the script under set -e; after status 0 bash goes on to the
\* text that follows line 112, ".PHONY: ...", which is no command: status 127.
shLogs(st) ==
    /\ At("sh", "logs")
    /\ script' = Exit(Ran("logs", "exited"), IF st = 0 THEN 127 ELSE st)
    /\ UNCHANGED appVars

\* start.bat, an error branch: pause, then exit /b 1. The script waits at
\* the pause; a key, or Ctrl+C answered N, lets it go on to exit /b 1;
\* Ctrl+C answered Y ends the batch job there.
batExit(key) ==
    /\ At("bat", "failed")
    /\ script' = IF key = "Ctrl+C Y"
                 THEN [script EXCEPT !.pc = "terminated", !.exit = Terminated]
                 ELSE Exit(script, 1)
    /\ UNCHANGED appVars

\* start.bat: docker --version; if errorlevel 1, the error branch.
batCheckDocker ==
    /\ At("bat", "checkDocker")
    /\ script' = IF script.world.docker THEN [script EXCEPT !.pc = "checkDaemon"]
                 ELSE [script EXCEPT !.pc = "failed"]
    /\ UNCHANGED appVars

\* A script that does not test whether Docker Desktop is running.
batCheckDaemonSkipped ==
    /\ At("bat", "checkDaemon")
    /\ script' = [script EXCEPT !.pc = "checkCompose"]
    /\ UNCHANGED appVars

\* start.bat: docker ps; if errorlevel 1 (Docker Desktop not running), the
\* error branch.
batCheckDaemon ==
    /\ At("bat", "checkDaemon")
    /\ script' = IF script.world.daemon THEN [script EXCEPT !.pc = "checkCompose"]
                 ELSE [script EXCEPT !.pc = "failed"]
    /\ UNCHANGED appVars

\* start.bat: docker-compose --version; if errorlevel 1, the error branch.
batCheckCompose ==
    /\ At("bat", "checkCompose")
    /\ script' = IF script.world.compose THEN [script EXCEPT !.pc = "checkEnv"]
                 ELSE [script EXCEPT !.pc = "failed"]
    /\ UNCHANGED appVars

\* start.bat: if not exist .env, copy .env.example .env; the status of copy
\* is not looked at, so without .env.example the script goes on without .env.
batCheckEnv ==
    /\ At("bat", "checkEnv")
    /\ script' = IF script.env THEN [script EXCEPT !.pc = "down"]
                 ELSE [Ran("cp", "down") EXCEPT !.env = script.world.example]
    /\ UNCHANGED appVars

\* start.bat step 1: docker-compose down, its status not looked at.
batDown ==
    /\ At("bat", "down")
    /\ script' = Ran("down", "build")
    /\ UNCHANGED appVars

\* A build step that does not look at the status of docker-compose build.
batBuildUnchecked ==
    /\ At("bat", "build")
    /\ script' = Ran("build", "up")
    /\ UNCHANGED appVars

\* start.bat step 2: docker-compose build; if errorlevel 1 (status 1 or
\* more), the error branch.
batBuild ==
    /\ At("bat", "build")
    /\ script' = IF script.world.build >= 1 THEN Ran("build", "failed")
                 ELSE Ran("build", "up")
    /\ UNCHANGED appVars

\* start.bat step 3: docker-compose up -d; if errorlevel 1, the error branch.
batUp ==
    /\ At("bat", "up")
    /\ script' = IF script.world.up >= 1 THEN Ran("up", "failed")
                 ELSE Ran("up", "wait")
    /\ UNCHANGED appVars

\* start.bat step 4: timeout /t 30, no check of any service.
batWait ==
    /\ At("bat", "wait")
    /\ script' = [script EXCEPT !.pc = "banner"]
    /\ UNCHANGED appVars

\* start.bat: the running banner.
batBanner ==
    /\ At("bat", "banner")
    /\ script' = Ran("banner", "browser")
    /\ UNCHANGED appVars

\* start.bat: start http://localhost:5173.
batBrowser ==
    /\ At("bat", "browser")
    /\ script' = Ran("browser", "pause")
    /\ UNCHANGED appVars

\* start.bat: pause >nul; docker-compose logs -f follows, unless the user
\* ends the batch job at the pause.
batPause(key) ==
    /\ At("bat", "pause")
    /\ script' = IF key = "Ctrl+C Y"
                 THEN [script EXCEPT !.pc = "terminated", !.exit = Terminated]
                 ELSE [script EXCEPT !.pc = "logs"]
    /\ UNCHANGED appVars

\* start.bat: docker-compose logs -f returns with status st, and the script,
\* at its last line, ends with that status.
batLogs(st) ==
    /\ At("bat", "logs")
    /\ script' = Exit(Ran("logs", "exited"), st)
    /\ UNCHANGED appVars

\* ---------------------------------------------------------- specification
\* useProbes, the probe list: listProbes and createProbe. The bound is on the
\* requests the components issue: a component issues one only while every
\* POST not yet answered leaves a request number for the refetch its success
\* sends, so that the answers of the network are never held back.
ListBudget == nextId' + Cardinality(posts') <= MaxRequests + 1

NextList ==
    \/ listProbes /\ ListBudget
    \/ Unmount(listProbesKey)
    \/ GarbageCollect(listProbesKey)
    \/ \E r \in inflight : FetchSuccess(r)
    \/ \E r \in inflight : FetchError(r)
    \/ createProbe /\ ListBudget
    \/ \E p \in posts : PostSuccess(p)
    \/ \E p \in posts : PostError(p)

Spec == Init /\ [][NextList]_vars

\* useProbes, the probe results: getProbeResults and executeProbe, next to a
\* mounted probe list. The bound is on the requests the components issue;
\* the refetches that the success of a POST sends are not bounded, and with
\* this bound their numbers stay within MaxRequests.
ResultsBudget == nextId' <= MaxResultsRequests + 1

NextResults ==
    \/ listProbes /\ ResultsBudget
    \/ \E a \in ResultsArgs : getProbeResults(a[1], a[2]) /\ ResultsBudget
    \/ \E a, b \in ResultsArgs : getProbeResultsAgain(a, b) /\ ResultsBudget
    \/ \E R \in ComponentResults : unmountUseProbes(R)
    \/ \E k \in Keys : GarbageCollect(k)
    \/ \E r \in inflight : FetchSuccess(r)
    \/ \E r \in inflight : FetchError(r)
    \/ \E j \in JobIds : executeProbe(j) /\ ResultsBudget
    \/ \E p \in posts : PostSuccess(p)
    \/ \E p \in posts : PostError(p)

SpecResults == Init /\ [][NextResults]_vars

\* useProbes as a whole: both queries and both mutations, with a bound of
\* its own on the requests the components issue and on the observers mounted
\* at one time; the refetches that the success of a POST sends are not
\* bounded, and with this bound their numbers stay within MaxRequests.
FrameBudget == nextId' <= MaxFrameRequests + 1 /\ Mounted' <= MaxFrameObservers

NextFrame ==
    \/ listProbes /\ FrameBudget
    \/ \E a \in ResultsArgs : getProbeResults(a[1], a[2]) /\ FrameBudget
    \/ \E a, b \in ResultsArgs : getProbeResultsAgain(a, b) /\ FrameBudget
    \/ \E R \in ComponentResults : unmountUseProbes(R)
    \/ \E k \in Keys : GarbageCollect(k)
    \/ \E r \in inflight : FetchSuccess(r)
    \/ \E r \in inflight : FetchError(r)
    \/ createProbe /\ FrameBudget
    \/ \E j \in JobIds : executeProbe(j) /\ FrameBudget
    \/ \E p \in posts : PostSuccess(p)
    \/ \E p \in posts : PostError(p)

SpecFrame == Init /\ [][NextFrame]_vars

\* useProbes in one mounted component that calls getProbeResults once, with
\* a bound of its own on the requests the component issues; the refetches
\* that the success of a POST sends are not bounded, and with this bound
\* their numbers stay within MaxRequests.
LiveBudget == nextId' <= MaxLiveRequests + 1

NextLive ==
    \/ observers[listProbesKey] = 0 /\ listProbes /\ LiveBudget
    \/ \E a \in ResultsArgs :
          /\ \A b \in ResultsArgs : calls[b] = 0
          /\ getProbeResults(a[1], a[2]) /\ LiveBudget
    \/ \E a, b \in ResultsArgs : getProbeResultsAgain(a, b) /\ LiveBudget
    \/ \E R \in ComponentResults : unmountUseProbes(R)
    \/ \E k \in Keys : GarbageCollect(k)
    \/ \E r \in inflight : FetchSuccess(r)
    \/ \E r \in inflight : FetchError(r)
    \/ createProbe /\ LiveBudget
    \/ \E j \in JobIds : executeProbe(j) /\ LiveBudget
    \/ \E p \in posts : PostSuccess(p)
    \/ \E p \in posts : PostError(p)

\* A transport with a timeout on the probe list call only.
TransportAnswersList ==
    \E r \in inflight : /\ r.key = listProbesKey
                         /\ \A q \in inflight : r.id <= q.id
                         /\ (FetchSuccess(r) \/ FetchError(r))

\* apiClient answers the GET that has been in flight longest: with a
\* response, or with a failure once its per-request timeout has passed.
TransportAnswers ==
    \E r \in inflight : /\ \A q \in inflight : r.id <= q.id
                         /\ (FetchSuccess(r) \/ FetchError(r))

\* The component with a transport that answers: the request longest in
\* flight is always answered in the end, and so each request is in its turn,
\* however many are sent after it.
SpecLive == Init /\ [][NextLive]_vars /\ WF_vars(TransportAnswers)

\* The start scripts: one of them is launched and runs step by step.
shStep ==
    \/ shCheckDocker
    \/ shCheckCompose
    \/ shCheckEnv
    \/ \E key \in {"Enter", "Ctrl+C"} : shRead(key)
    \/ shDown
    \/ shBuild
    \/ shUp
    \/ \E i \in 1..Len(Services) : shWait(i)
    \/ shBanner
    \/ \E st \in LogStatuses : shLogs(st)

batStep ==
    \/ batCheckDocker
    \/ batCheckDaemon
    \/ batCheckCompose
    \/ batCheckEnv
    \/ batDown
    \/ batBuild
    \/ batUp
    \/ batWait
    \/ batBanner
    \/ batBrowser
    \/ \E key \in PauseKeys : batPause(key)
    \/ \E key \in PauseKeys : batExit(key)
    \/ \E st \in LogStatuses : batLogs(st)

NextStart ==
    \/ \E n \in {"sh", "bat"}, w \in Worlds : start(n, w)
    \/ shStep
    \/ batStep
    \/ \E i \in 1..Len(Services) : serviceReady(i)

SpecStart == Init /\ [][NextStart]_vars

\* start.sh from its readiness loops to the banner.
shReady == (\E i \in 1..Len(Services) : shWait(i)) \/ shBanner

\* start.sh keeps running once it waits for the services, and every started
\* service becomes ready.
SpecStartLive ==
    /\ Init /\ [][NextStart]_vars
    /\ WF_vars(shReady)
    /\ \A i \in 1..Len(Services) : WF_vars(serviceReady(i))

\* The VisibilityResearch page.
NextResearch ==
    \/ \E c \in Categories : setCategory(c)
    \/ onKeyPress
    \/ onClick
    \/ \E p \in posts : PostSuccess(p)
    \/ \E p \in posts : PostError(p)

SpecResearch == Init /\ [][NextResearch]_vars

TypeOK ==
    /\ nextId \in 1..(MaxRequests + 1)
    /\ \A k \in Keys : observers[k] \in 0..MaxObservers
    /\ \A a \in ResultsArgs : calls[a] \in 0..MaxObservers
    /\ \A r \in inflight : r.id < nextId /\ r.key \in Keys
    /\ \A p \in posts : p.id < nextId /\ p.unit \in Units
    /\ (\E k \in ResultsKeys : observers[k] > 0) => observers[listProbesKey] > 0
    /\ script.pc = "exited" <=> script.exit \notin {Running, Terminated}
    /\ script.pc = "terminated" <=> script.exit = Terminated

\* ------------------------------------------------------------ properties
\* The in-flight GETs of key k, and those among them the query waits for.
RequestsFor(k) == {r \in inflight : r.key = k}
CurrentFor(k) == {r \in RequestsFor(k) : isCurrent(r)}
PostsOf(u) == {p \in posts : p.unit = u}

\* k starts with the prefix P.
StartsWith(k, P) == Len(P) <= Len(k) /\ SubSeq(k, 1, Len(P)) = P

\* The step is the success of a POST of unit u / the failure of a POST.
Succeeded(u) ==
    /\ lastSettled' # lastSettled
    /\ lastSettled'.ok
    /\ \E p \in PostsOf(u) : p.id = lastSettled'.id
Failed(u) ==
    /\ lastSettled' # lastSettled
    /\ ~lastSettled'.ok
    /\ \E p \in PostsOf(u) : p.id = lastSettled'.id

\* C1: a mutate call made while the unit's previous invocation is pending is
\* rejected: while a unit is pending no further request of that unit is sent.
C1_PendingMutateRejected ==
    [][\A u \in Units : isPending(u) => PostsOf(u)' \subseteq PostsOf(u)]_vars

\* C2 as stated: for every key at most one request is in flight.
C2_AtMostOneInFlight == \A k \in Keys : Cardinality(RequestsFor(k)) <= 1

\* C2 amended: for every key exactly one in-flight request is the fetch the
\* entry waits for while the entry is loading, and none is while it is at
\* rest; a step sends at most one request for a key, and that request becomes
\* the fetch the entry waits for; while the entry is loading a request is sent
\* only by the invalidation of a successful mutation on an entry that holds
\* data, which supersedes the running fetch and leaves its request on the
\* network; a request leaves the network only by its own answer, a step that
\* sends nothing, mounts nothing and settles no POST. Requests that are not
\* the entry's fetch may thus be in flight in any number, whether the entry
\* is loading or at rest.
C2_OneCurrentFetchPerKey ==
    /\ [](\A k \in Keys :
            Cardinality(CurrentFor(k)) =
                IF cache[k].exists /\ cache[k].fetchStatus = "fetching" THEN 1 ELSE 0)
    /\ [][\A k \in Keys :
            LET new == RequestsFor(k)' \ RequestsFor(k)
            IN  /\ Cardinality(new) <= 1
                /\ new \subseteq CurrentFor(k)'
                /\ new # {} /\ cache[k].fetchStatus = "fetching"
                      => /\ cache[k].data # 0 /\ cache'[k].isInvalidated
                         /\ \E u \in Units : Succeeded(u)
                         /\ RequestsFor(k) \subseteq RequestsFor(k)'
                /\ RequestsFor(k) \ RequestsFor(k)' # {}
                      => /\ Cardinality(inflight \ inflight') = 1
                         /\ inflight' \subseteq inflight
                         /\ observers' = observers /\ posts' = posts]_vars

\* C2 witness: a first load has been sent for a key while a request of an
\* earlier, superseded fetch of that key is still in flight: the entry that
\* request belonged to came to rest and was collected, and the new entry,
\* without data, waits for the new request.
C2_Witness ==
    \E k \in Keys : \E r \in RequestsFor(k), c \in CurrentFor(k) :
        /\ r.id < c.id /\ ~isCurrent(r)
        /\ cache[k].data = 0

\* C3: request ids follow the order of issue; the data of an entry is only
\* ever replaced by the result of a fetch issued later than the one it came
\* from, so a response resolving late never overwrites a later fetch's result.
C3_LaterFetchWins ==
    [][\A k \in Keys :
          cache[k].data # 0 /\ cache'[k].exists /\ cache'[k].data # cache[k].data
              => cache'[k].data > cache[k].data]_vars

\* C3 witness: an entry holds the result of a later fetch while an earlier
\* request for the same key is still unresolved.
C3_Witness ==
    \E k \in Keys : \E r \in RequestsFor(k) :
        cache[k].data > r.id /\ cache[k].status = "success"

\* C4: a successful mutation bound to prefix P marks every existing entry
\* whose key starts with P invalidated and leaves every other entry as it was.
C4_InvalidateByPrefix ==
    [][/\ Succeeded("createProbe") =>
              \A k \in Keys :
                  IF StartsWith(k, <<"probes">>)
                  THEN cache[k].exists => cache'[k].isInvalidated
                  ELSE cache'[k] = cache[k]
       /\ Succeeded("executeProbe") =>
              \A k \in Keys :
                  IF StartsWith(k, <<"probe-results">>)
                  THEN cache[k].exists => cache'[k].isInvalidated
                  ELSE cache'[k] = cache[k]]_vars

\* C4 witness: executeProbe has succeeded, two ['probe-results', ...] entries
\* are invalidated and the ['probes'] entry holds its data untouched.
C4_Witness ==
    /\ lastSettled.ok
    /\ Cardinality({k \in Keys : StartsWith(k, <<"probe-results">>)
                                  /\ cache[k].exists /\ cache[k].isInvalidated}) >= 2
    /\ cache[listProbesKey].status = "success"
    /\ ~cache[listProbesKey].isInvalidated

\* C5: when createProbe or executeProbe succeeds, every entry under its
\* prefix that has an enabled observer is loading afterwards, by a fetch
\* issued when the mutation completed and not before, so that the value it
\* comes to hold was obtained after the mutation.
C5_ActiveEntriesRefetched ==
    [][/\ Succeeded("createProbe") =>
              \A k \in Keys :
                  (/\ StartsWith(k, <<"probes">>) /\ cache[k].exists
                   /\ observers[k] > 0 /\ enabled(k))
                      => /\ cache'[k].fetchStatus = "fetching"
                         /\ cache'[k].token >= nextId
       /\ Succeeded("executeProbe") =>
              \A k \in Keys :
                  (/\ StartsWith(k, <<"probe-results">>) /\ cache[k].exists
                   /\ observers[k] > 0 /\ enabled(k))
                      => /\ cache'[k].fetchStatus = "fetching"
                         /\ cache'[k].token >= nextId]_vars

\* The step ends the fetch of k in failure.
FetchEndsInError(k) ==
    /\ cache[k].exists /\ cache[k].fetchStatus = "fetching"
    /\ cache'[k].exists /\ cache'[k].fetchStatus = "idle"
    /\ cache'[k].status = "error"

\* C6: when the fetch of an entry that holds data fails, the error is set and
\* the data stays the last successful value.
C6_StaleWhileError ==
    [][\A k \in Keys : FetchEndsInError(k) /\ cache[k].data # 0
          => cache'[k].error /\ cache'[k].data = cache[k].data]_vars

\* C6 witness: an entry in error that still holds the data of an earlier fetch.
C6_Witness ==
    \E k \in Keys : /\ cache[k].status = "error" /\ cache[k].error
                    /\ cache[k].fetchStatus = "idle" /\ cache[k].data # 0

\* C7: for getProbeResults with an empty jobId no request is ever on the
\* network and the entry stays at rest without data, status or error.
C7_DisabledNeverFetches ==
    \A a \in {b \in ResultsArgs : b[1] = ""} :
        LET k == <<"probe-results", "", IF a[2] = Undefined THEN "30d" ELSE a[2]>>
        IN  /\ RequestsFor(k) = {}
            /\ cache[k].fetchStatus = "idle"
            /\ cache[k].status = "pending"
            /\ cache[k].data = 0 /\ ~cache[k].error

\* C7 witness: the component's getProbeResults call has moved from job1 to
\* an empty jobId, leaving the entry of job1 behind unobserved; executeProbe
\* has then succeeded, and the observed entry of the empty jobId, invalidated
\* with the others, is still at rest.
C7_Witness ==
    \E a \in {b \in ResultsArgs : b[1] = ""} :
        LET k == <<"probe-results", "", IF a[2] = Undefined THEN "30d" ELSE a[2]>>
        IN  /\ observers[k] > 0 /\ calls[a] > 0 /\ cache[k].isInvalidated
            /\ cache[k].fetchStatus = "idle" /\ lastSettled.ok
            /\ \E j \in Keys : /\ j[1] = "probe-results" /\ j[2] = "job1"
                               /\ cache[j].data # 0 /\ observers[j] = 0
                               /\ cache[j].isInvalidated

\* C8: a subscription to a key whose entry is fetching sends no request and
\* leaves the entry as it is; a subscription to an enabled key whose entry is
\* at rest without data sends exactly one request, the one the entry then
\* waits for; every observer of the key reads that one entry.
C8_SubscriptionsShareOneFetch ==
    [][\A k \in Keys : observers'[k] > observers[k] =>
          IF cache[k].fetchStatus = "fetching"
          THEN inflight' = inflight /\ cache'[k] = cache[k]
          ELSE k = <<"probes">> /\ cache[k].data = 0 =>
                  /\ Cardinality(inflight' \ inflight) = 1
                  /\ CurrentFor(k)' = inflight' \ inflight]_vars

\* C8 witness: two observers of ['probes'] and the only request ever sent is
\* the one fetch the entry waits for.
C8_Witness ==
    /\ observers[<<"probes">>] = 2
    /\ nextId = 2
    /\ Cardinality(CurrentFor(<<"probes">>)) = 1

\* C9: a request is sent only by a step of a caller: a GET by a subscription
\* or by the invalidation of a successful mutation, a POST by a mutate call.
\* A step in which a fetch or a mutation fails sends nothing.
C9_NoAutomaticRetry ==
    [][/\ inflight' \ inflight # {} =>
              \/ \E k \in Keys : observers'[k] > observers[k]
              \/ \E u \in Units : Succeeded(u)
       /\ \A p \in posts' \ posts : mutation'[p.unit].current = p.id
                                     /\ mutation[p.unit].current # p.id
       /\ (\E k \in Keys : FetchEndsInError(k)) \/ (\E u \in Units : Failed(u))
              => inflight' \subseteq inflight /\ posts' \subseteq posts]_vars

\* C9 witness: a fetch has failed, its entry is at rest in error, it is still
\* observed and no request is on the network.
C9_Witness ==
    \E k \in Keys : /\ cache[k].status = "error" /\ cache[k].fetchStatus = "idle"
                    /\ observers[k] > 0 /\ inflight = {} /\ posts = {}
                    /\ lastSettled.id # 0 /\ ~lastSettled.ok

\* The status a unit shows: idle, loading, success or error.
QueryStatus(q) ==
    IF q.fetchStatus = "fetching" THEN "loading"
    ELSE IF q.status = "pending" THEN "idle" ELSE q.status
MutationStatus(m) == IF m.status = "pending" THEN "loading" ELSE m.status

\* The status changes the claim allows, error to idle left out: no caller
\* makes a retry call.
AllowedChange ==
    {<<"idle", "loading">>, <<"loading", "success">>, <<"loading", "error">>,
     <<"success", "loading">>, <<"error", "loading">>}

\* C10: every status change of a mounted query unit and of a mutation unit
\* is idle to loading, loading to success or error, or success or error to
\* loading; error to idle never happens, no retry call being made.
C10_StatusChanges ==
    [][/\ \A k \in Keys : observers[k] > 0 /\ observers'[k] > 0 =>
              \/ QueryStatus(cache'[k]) = QueryStatus(cache[k])
              \/ <<QueryStatus(cache[k]), QueryStatus(cache'[k])>> \in AllowedChange
       /\ \A u \in Units :
              \/ MutationStatus(mutation'[u]) = MutationStatus(mutation[u])
              \/ <<MutationStatus(mutation[u]), MutationStatus(mutation'[u])>>
                     \in AllowedChange]_vars

\* C10 witness: an observed entry that failed and is loading again, next to
\* a mutation unit that failed.
C10_Witness ==
    /\ \E k \in Keys : /\ observers[k] > 0 /\ cache[k].status = "error"
                       /\ cache[k].fetchStatus = "fetching"
    /\ \E u \in Units : mutation[u].status = "error"

\* The step settles, in failure, the mutation that unit u follows.
CurrentFailed(u) == Failed(u) /\ lastSettled'.id = mutation[u].current

\* C11 as stated: when the request of a unit's mutation fails the unit's
\* status is idle afterwards.
C11_FailureResetsToIdle ==
    [][\A u \in Units : CurrentFailed(u) => mutation'[u].status = "idle"]_vars

\* C11 amended: when the request of a unit's mutation fails the unit's status
\* is error afterwards (no unit defines onError), and from error the next run
\* of the analysis is accepted: the button is enabled and a mutate call sends
\* its request.
C11_FailureLeavesError ==
    /\ [][\A u \in Units : CurrentFailed(u) => mutation'[u].status = "error"]_vars
    /\ [](mutation["runResearch"].status = "error" /\ trim(category) # <<>>
             /\ nextId <= MaxRequests
          => ENABLED (onClick /\ posts' # posts))

\* C11 witness: the analysis the unit follows has failed, the unit shows
\* error and the category is not blank.
C11_Witness ==
    /\ mutation["runResearch"].status = "error"
    /\ lastSettled = [id |-> mutation["runResearch"].current, ok |-> FALSE]
    /\ trim(category) # <<>>

\* C12: a response to a request that is not the fetch its entry waits for
\* leaves the entry exactly as it was: data, status and error are untouched.
C12_SupersededResponseDropped ==
    [][\A r \in inflight \ inflight' :
          cache[r.key].token # r.id => cache'[r.key] = cache[r.key]]_vars

\* C12 witness: an entry at rest and a superseded request for its key still
\* on the network.
C12_Witness ==
    \E r \in inflight : /\ cache[r.key].exists
                        /\ cache[r.key].fetchStatus = "idle"
                        /\ cache[r.key].data # 0

\* C13: the invalidation of createProbe is its onSuccess callback: an entry
\* under ['probes'] becomes invalidated, or starts to reload data it holds,
\* only in the step in which a POST /probes/create succeeds; calling mutate
\* and the time the POST is on the network leave the cache untouched.
C13_InvalidationAfterSuccess ==
    [][/\ \A k \in Keys : StartsWith(k, <<"probes">>) /\ cache'[k].exists =>
              /\ cache'[k].isInvalidated /\ ~cache[k].isInvalidated
                    => Succeeded("createProbe")
              /\ cache'[k].fetchStatus = "fetching" /\ cache[k].fetchStatus = "idle"
                 /\ cache[k].data # 0 /\ ~cache[k].isInvalidated
                    => Succeeded("createProbe")
       /\ PostsOf("createProbe")' \ PostsOf("createProbe") # {} => cache' = cache]_vars

\* C13 witness: the createProbe the unit follows has succeeded and the probe
\* list, loaded before, is invalidated and reloading.
C13_Witness ==
    /\ mutation["createProbe"].status = "success"
    /\ lastSettled = [id |-> mutation["createProbe"].current, ok |-> TRUE]
    /\ cache[<<"probes">>].isInvalidated
    /\ cache[<<"probes">>].data # 0
    /\ cache[<<"probes">>].fetchStatus = "fetching"

\* C14: a further subscription to ['probes'] (a re-mount of useProbes) while
\* the entry is at rest in success sends no request and leaves the cache as
\* it is, unless the entry has been invalidated since its last successful
\* fetch: then exactly one request is sent, for that key.
C14_FreshEntryNotRefetched ==
    [][observers'[<<"probes">>] > observers[<<"probes">>]
       /\ cache[<<"probes">>].status = "success"
       /\ cache[<<"probes">>].fetchStatus = "idle"
          => IF cache[<<"probes">>].isInvalidated
             THEN /\ Cardinality(inflight' \ inflight) = 1
                  /\ \A r \in inflight' \ inflight : r.key = <<"probes">>
             ELSE inflight' = inflight /\ cache' = cache]_vars

\* C14 witness: the probe list is observed twice, at rest in success and not
\* invalidated, and one request is all that was ever sent.
C14_Witness ==
    /\ observers[<<"probes">>] = 2
    /\ cache[<<"probes">>].status = "success"
    /\ cache[<<"probes">>].fetchStatus = "idle"
    /\ ~cache[<<"probes">>].isInvalidated
    /\ nextId = 2 /\ inflight = {}

\* The step moves an observer from the disabled query ka to the enabled kb.
BecomesEnabled(ka, kb) ==
    /\ ka[1] = "probe-results" /\ kb[1] = "probe-results"
    /\ ka[2] = "" /\ kb[2] # ""
    /\ observers'[ka] < observers[ka]
    /\ observers'[kb] > observers[kb]

NewRequestsFor(k) == RequestsFor(k)' \ RequestsFor(k)

\* C16: when executeProbe succeeds, a request is sent at once for every
\* ['probe-results', ...] entry with an enabled observer and none for an
\* entry without; the next subscription of an enabled observer to an
\* invalidated entry at rest sends a request.
C16_ActiveRefetchedAtOnce ==
    [][/\ Succeeded("executeProbe") =>
              \A k \in Keys : StartsWith(k, <<"probe-results">>) /\ cache[k].exists =>
                  IF observers[k] > 0 /\ k[2] # ""
                  THEN NewRequestsFor(k) # {}
                  ELSE NewRequestsFor(k) = {}
       /\ \A k \in Keys :
              StartsWith(k, <<"probe-results">>) /\ k[2] # ""
              /\ observers'[k] > observers[k] /\ cache[k].isInvalidated
              /\ cache[k].fetchStatus = "idle"
                  => NewRequestsFor(k) # {}]_vars

\* The entry of k is loading / at rest in success or in error.
Loading(k) == cache[k].exists /\ cache[k].fetchStatus = "fetching"
Settled(k) == /\ cache[k].exists /\ cache[k].fetchStatus = "idle"
              /\ cache[k].status \in {"success", "error"}

\* The step supersedes the fetch of k by a later one.
Superseded(k) ==
    Loading(k) /\ Loading(k)' /\ cache'[k].token > cache[k].token

C18_UnobservedFetchCompletes ==
    [][/\ \A k \in Keys :
              observers[k] > 0 /\ observers'[k] = 0 /\ cache[k].fetchStatus = "fetching"
                  => inflight' = inflight /\ cache' = cache
       /\ \A r \in inflight \ inflight' : observers[r.key] = 0 =>
              /\ cache'[r.key] # cache[r.key]
                    <=> cache[r.key].fetchStatus = "fetching" /\ cache[r.key].token = r.id
              /\ cache'[r.key] # cache[r.key] =>
                    /\ cache'[r.key].fetchStatus = "idle"
                    /\ \/ cache'[r.key].status = "success" /\ cache'[r.key].data = r.id
                       \/ cache'[r.key].status = "error" /\ cache'[r.key].error]_vars

\* C18 witness: the probe list has no observer left, is still fetching, and
\* the request it waits for is on the network.
C18_Witness ==
    /\ observers[<<"probes">>] = 0
    /\ cache[<<"probes">>].fetchStatus = "fetching"
    /\ \E r \in inflight : r.key = <<"probes">> /\ r.id = cache[<<"probes">>].token

\* What a unit reads of an entry: everything but the fetch it waits for.
Visible(q) == [exists |-> q.exists, status |-> q.status, fetchStatus |-> q.fetchStatus,
               data |-> q.data, error |-> q.error, isInvalidated |-> q.isInvalidated]

\* No entry under ['probes'] exists.
NoProbesEntry == \A k \in Keys : StartsWith(k, <<"probes">>) => ~cache[k].exists

\* The state is one an invalidation of ['probes'] leaves: some entry under
\* the prefix exists, each is invalidated and each observed one is fetching.
ProbesInvalidated ==
    /\ ~NoProbesEntry
    /\ \A k \in Keys : StartsWith(k, <<"probes">>) /\ cache[k].exists =>
          /\ cache[k].isInvalidated
          /\ observers[k] > 0 => cache[k].fetchStatus = "fetching"

\* C19 as stated: the invalidation of createProbe changes nothing when no
\* entry matches, and applied to a state it has already been applied to it
\* leaves the store as it is.
C19_InvalidationIdempotent ==
    [][Succeeded("createProbe") =>
          /\ NoProbesEntry => cache' = cache /\ inflight' = inflight
          /\ ProbesInvalidated => cache' = cache /\ inflight' = inflight]_vars

\* C19 amended: the invalidation of createProbe changes nothing when no entry
\* matches; applied to a state it has already been applied to, it leaves what
\* the units read of every entry as it is, but for an observed entry that
\* holds data it sends a further request, which the entry then waits for in
\* place of the one sent before.
C19_InvalidationRepeatable ==
    [][Succeeded("createProbe") =>
          /\ NoProbesEntry => cache' = cache /\ inflight' = inflight
          /\ ProbesInvalidated =>
                /\ \A k \in Keys : Visible(cache'[k]) = Visible(cache[k])
                /\ \A k \in Keys :
                      NewRequestsFor(k) # {}
                          <=> StartsWith(k, <<"probes">>) /\ observers[k] > 0
                              /\ cache[k].data # 0
                /\ \A r \in inflight' \ inflight : cache'[r.key].token = r.id]_vars

\* C19 witness: two createProbe calls have succeeded one after the other; the
\* observed probe list is invalidated and waits for the refetch of the second,
\* the refetch of the first still being on the network.
C19_Witness ==
    /\ lastSettled.ok
    /\ observers[<<"probes">>] > 0
    /\ cache[<<"probes">>].isInvalidated
    /\ Cardinality({r \in inflight : r.key = <<"probes">>
                                     /\ r.id > cache[<<"probes">>].data}) = 2
    /\ cache[<<"probes">>].data # 0

\* The timeframe a call of getProbeResults asks for.
EffectiveTimeframe(t) == IF t = "undefined" THEN "30d" ELSE t

\* The mounted getProbeResults calls that ask for job j and timeframe t.
CallsAsking(j, t) ==
    SumOf(calls, {a \in ResultsArgs : a[1] = j /\ EffectiveTimeframe(a[2]) = t})

\* C20: the observers of every ['probe-results', j, t] slot are exactly the
\* mounted getProbeResults calls that ask for job j and timeframe t, an
\* omitted timeframe asking for '30d': calls that agree on both share the
\* slot, its entry and its fetch, calls that differ in either are in
\* different slots, and every mounted call has its entry. A call that comes
\* to ask for the same job and timeframe in other words stays in its slot and
\* nothing is fetched; one that comes to ask for another leaves its slot for
\* the slot of the new parameters. No call touches the slot of listProbes.
C20_SameParamsSameSlot ==
    /\ [](\A k \in ResultsKeys :
            /\ observers[k] = CallsAsking(k[2], k[3])
            /\ observers[k] > 0 => cache[k].exists)
    /\ [][\A a, b \in ResultsArgs :
            calls'[a] < calls[a] /\ calls'[b] > calls[b] =>
                LET same == a[1] = b[1]
                            /\ EffectiveTimeframe(a[2]) = EffectiveTimeframe(b[2])
                    kb == <<"probe-results", b[1], EffectiveTimeframe(b[2])>>
                IN  /\ same => UNCHANGED <<cache, observers, inflight, nextId>>
                    /\ ~same => /\ observers'[kb] = observers[kb] + 1
                                /\ \A k \in Keys \ {kb} : observers'[k] <= observers[k]]_vars
    /\ [][(\E a \in ResultsArgs : calls'[a] > calls[a]) =>
             /\ cache'[<<"probes">>] = cache[<<"probes">>]
             /\ observers'[<<"probes">>] = observers[<<"probes">>]
             /\ RequestsFor(<<"probes">>)' = RequestsFor(<<"probes">>)]_vars

\* C20 witness: getProbeResults('job1') and getProbeResults('job1', '30d')
\* are both mounted; they share the one entry ['probe-results', 'job1', '30d']
\* and its one request, the second request after that of ['probes'], and no
\* entry exists for the other timeframe.
C20_Witness ==
    /\ calls[<<"job1", Undefined>>] = 1 /\ calls[<<"job1", "30d">>] = 1
    /\ observers[<<"probe-results", "job1", "30d">>] = 2
    /\ cache[<<"probe-results", "job1", "30d">>].fetchStatus = "fetching"
    /\ nextId = 3
    /\ ~cache[<<"probe-results", "job1", "7d">>].exists

\* C21: a successful createProbe marks the ['probes'] entry invalidated and
\* leaves every ['probe-results', ...] entry as it was, sending no request for
\* it; a successful executeProbe marks every existing ['probe-results', j, t]
\* entry invalidated, whatever the job executed, and leaves the ['probes']
\* entry as it was, sending no request for it.
C21_InvalidationFrame ==
    [][/\ Succeeded("createProbe") =>
              /\ cache[<<"probes">>].exists => cache'[<<"probes">>].isInvalidated
              /\ \A k \in Keys : k[1] = "probe-results" =>
                    cache'[k] = cache[k] /\ RequestsFor(k)' = RequestsFor(k)
       /\ Succeeded("executeProbe") =>
              /\ \A k \in Keys : k[1] = "probe-results" /\ cache[k].exists =>
                    cache'[k].isInvalidated
              /\ cache'[<<"probes">>] = cache[<<"probes">>]
              /\ RequestsFor(<<"probes">>)' = RequestsFor(<<"probes">>)]_vars

\* C21 witness: executeProbe has succeeded; an observed entry of job1 that
\* held data is reloading by a request sent after the POST, and the observed
\* and loaded ['probes'] entry is at rest and not invalidated.
C21_Witness ==
    /\ lastSettled = [id |-> mutation["executeProbe"].current, ok |-> TRUE]
    /\ mutation["executeProbe"].status = "success"
    /\ \E k \in ResultsKeys : /\ observers[k] > 0 /\ cache[k].data # 0
                              /\ cache[k].fetchStatus = "fetching"
                              /\ cache[k].token > lastSettled.id
    /\ observers[<<"probes">>] > 0
    /\ cache[<<"probes">>].data # 0
    /\ cache[<<"probes">>].fetchStatus = "idle"
    /\ ~cache[<<"probes">>].isInvalidated

\* C22: when the POST of createProbe or of executeProbe fails, every cache
\* entry is left exactly as it was and no request is sent.
C22_FailureInvalidatesNothing ==
    [][Failed("createProbe") \/ Failed("executeProbe")
          => cache' = cache /\ inflight' = inflight /\ nextId' = nextId]_vars

\* C22 witness: the createProbe or executeProbe the unit follows has failed,
\* and an observed entry with data is at rest, in success and not invalidated.
C22_Witness ==
    /\ \E u \in {"createProbe", "executeProbe"} :
          /\ mutation[u].status = "error"
          /\ lastSettled = [id |-> mutation[u].current, ok |-> FALSE]
    /\ \E k \in Keys : /\ observers[k] > 0 /\ cache[k].status = "success"
                       /\ cache[k].fetchStatus = "idle" /\ ~cache[k].isInvalidated
    /\ inflight = {}

\* C23: request ids follow the order of issue; the report shown is only ever
\* replaced by the response to an analysis issued later than the one it came
\* from, so the response to an earlier request never replaces the report of
\* a later one.
C23_LaterReportWins ==
    [][report # 0 /\ report' # report => report' > report]_vars

\* C24: the report changes only in a step in which a POST /research/analyze
\* succeeds, and then to the response of that POST; so it is null until the
\* first success, and a failed analysis or an edit of the category leaves it
\* as it was.
C24_ReportChangesOnSuccessOnly ==
    [][/\ report' # report => Succeeded("runResearch") /\ report' = lastSettled'.id
       /\ Failed("runResearch") \/ category' # category => report' = report]_vars

\* C24 witness: a report is shown, an analysis issued after the one it came
\* from has failed, and the category has been edited to blank since.
C24_Witness ==
    /\ report # 0
    /\ ~lastSettled.ok /\ lastSettled.id > report
    /\ category = <<" ">>

\* s is empty or holds only spaces.
Blank(s) == \A i \in 1..Len(s) : s[i] = " "

\* C25: a POST /research/analyze is sent only in a step that starts with a
\* category that is not blank, by the button or by Enter, and it carries that
\* category; no request on the network carries a blank category.
C25_NoRequestForBlankCategory ==
    /\ [][\A p \in PostsOf("runResearch")' \ PostsOf("runResearch") :
             ~Blank(category) /\ p.input = category]_vars
    /\ [](\A p \in PostsOf("runResearch") : ~Blank(p.input))

\* C25 witness: a request for a category with a leading space is on the
\* network, and the input has since been edited to a single space.
C25_Witness ==
    /\ \E p \in PostsOf("runResearch") : p.input = <<" ", "a">>
    /\ category = <<" ">>

\* The commands the script has run, and a before b among them.
RanSet == {script.ran[j] : j \in 1..Len(script.ran)}
Before(a, b) ==
    \E i, j \in 1..Len(script.ran) : i < j /\ script.ran[i] = a /\ script.ran[j] = b

\* C26: start.sh has printed the banner only if the checks of PostgreSQL,
\* Redis, the backend and the frontend succeeded in that order before it, and
\* it waits for a service only after docker-compose down, build and up -d
\* have run in that order, build and up with status 0.
C26_BannerAfterChecksInOrder ==
    script.name = "sh" =>
        /\ "banner" \in RanSet =>
              /\ Before("postgres", "redis") /\ Before("redis", "backend")
              /\ Before("backend", "frontend") /\ Before("frontend", "banner")
        /\ script.pc \in {"wait1", "wait2", "wait3", "wait4"}
           \/ RanSet \cap {"postgres", "redis", "backend", "frontend", "banner"} # {}
              => /\ Before("down", "build") /\ Before("build", "up")
                 /\ \A c \in {"postgres", "redis", "backend", "frontend", "banner"} :
                       c \in RanSet => Before("up", c)
                 /\ script.world.build = 0 /\ script.world.up = 0

\* C26 witness: start.sh has printed the banner.
C26_Witness ==
    /\ script.name = "sh"
    /\ script.pc = "logs"
    /\ "banner" \in RanSet
    /\ script.ready = {"postgres", "redis", "backend", "frontend"}

\* A prerequisite of the script is missing: docker or docker-compose, or for
\* start.bat a running docker daemon.
MissingPrerequisite ==
    /\ script.name \in {"sh", "bat"}
    /\ \/ ~script.world.docker
       \/ ~script.world.compose
       \/ script.name = "bat" /\ ~script.world.daemon

\* C27: when docker or docker-compose is missing, or for start.bat the docker
\* daemon is not running, the script runs none of docker-compose down, build
\* and up and creates no .env; it stays in its checks until one fails, and
\* the only exit it then makes is with status 1: start.sh at once, start.bat
\* after the pause of its error branch, unless the user ends the batch job
\* at that pause.
C27_MissingPrerequisiteExits ==
    /\ [](MissingPrerequisite =>
            /\ RanSet = {}
            /\ script.env = script.world.env
            /\ script.pc \in {"checkDocker", "checkDaemon", "checkCompose",
                              "failed", "exited", "terminated"}
            /\ script.name = "sh" => script.pc \in {"checkDocker", "checkCompose", "exited"}
            /\ script.pc = "exited" => script.exit = 1
            /\ script.pc # "exited" => script.exit # 1)
    /\ [][MissingPrerequisite /\ script.pc = "failed" =>
            \/ script'.pc = "exited" /\ script'.exit = 1
            \/ script'.pc = "terminated" /\ script'.exit = Terminated]_vars

\* C27 witness: start.bat has exited with status 1 on a machine with docker
\* and docker-compose installed, the daemon not running and no .env.
C27_Witness ==
    /\ script.name = "bat" /\ script.pc = "exited" /\ script.exit = 1
    /\ script.ran = <<>>
    /\ script.world.docker /\ script.world.compose /\ ~script.world.daemon
    /\ ~script.env

\* C28: start.sh, once it waits for the services, prints the banner if every
\* service becomes ready; while it waits it never exits, however many polls
\* have failed, and it has printed the banner only if every service was ready.
C28_WaitsUntilReady ==
    /\ (script.name = "sh" /\ script.pc = "wait1") ~> ("banner" \in RanSet)
    /\ [][script.name = "sh" /\ script.pc \in {"wait1", "wait2", "wait3", "wait4"}
             => script'.exit = -1 /\ script'.pc # "exited"]_vars
    /\ [](script.name = "sh" /\ "banner" \in RanSet
             => script.ready = {"postgres", "redis", "backend", "frontend"})

\* C28 witness: start.sh is in the loop of the backend, which is not ready,
\* and every counted poll has failed.
C28_Witness ==
    /\ script.name = "sh" /\ script.pc = "wait3"
    /\ "backend" \notin script.ready
    /\ script.polls = MaxPolls

\* C29: start.bat has printed the banner or opened the browser only if
\* docker-compose build and docker-compose up -d both ended with status 0;
\* when build fails it runs no up, and when either fails it runs no banner
\* and no browser: it waits at the pause of the error branch and the only
\* exit it then makes is with status 1, unless the user ends the batch job
\* at that pause.
C29_BannerOnlyAfterBuildAndUp ==
    /\ [](script.name = "bat" =>
            /\ RanSet \cap {"banner", "browser"} # {}
                  => script.world.build = 0 /\ script.world.up = 0
            /\ script.world.build # 0 /\ "build" \in RanSet
                  => /\ script.pc \in {"failed", "exited", "terminated"}
                     /\ script.pc = "exited" => script.exit = 1
                     /\ RanSet \cap {"up", "banner", "browser", "logs"} = {}
            /\ script.world.up # 0 /\ "up" \in RanSet
                  => /\ script.pc \in {"failed", "exited", "terminated"}
                     /\ script.pc = "exited" => script.exit = 1
                     /\ RanSet \cap {"banner", "browser", "logs"} = {})
    /\ [][script.name = "bat" /\ script.pc = "failed" /\ "build" \in RanSet =>
            /\ script'.ran = script.ran
            /\ \/ script'.pc = "exited" /\ script'.exit = 1
               \/ script'.pc = "terminated" /\ script'.exit = Terminated]_vars

\* C29 witness: docker-compose build ended with status 2 and start.bat has
\* exited with status 1.
C29_Witness ==
    /\ script.name = "bat" /\ script.world.build = 2
    /\ "build" \in RanSet /\ "up" \notin RanSet
    /\ script.pc = "exited" /\ script.exit = 1

====
